---- MODULE Spec2Model ----
(***************************************************************************)
(* Pre-trade risk rules of vnpy_riskmanager (Cython version): the rule     *)
(* template and the rules DuplicateOrderRule, DailyLimitRule,              *)
(* ActiveOrderRule, OrderSizeRule and OrderValidityRule.                   *)
(*                                                                         *)
(* One rule instance is modelled at a time.  `self` is the instance: a     *)
(* record whose fields are the instance attributes, so that the reflective *)
(* setattr/getattr of the template are record updates and reads by name.   *)
(* Every action is one call of one method of the rule by the risk engine;  *)
(* the methods are operators from the instance and the argument to their   *)
(* effects, and Call applies the effects.                                  *)
(* op, arg, ret, exc, log and events describe that call: its name,         *)
(* argument and return value (or the exception that left it), and what it  *)
(* sent to the engine (write_log, put_event).                              *)
(*                                                                         *)
(* Numbers.  Prices, tick sizes and order values are Python floats (C      *)
(* double).  They are modelled exactly, as integers counting units of      *)
(* 1/PriceScale; the inputs are chosen so that the double arithmetic of    *)
(* the program is exact to well within the distances the rules compare.    *)
(* C float (32 bit) values are modelled bit-exactly, see F32.              *)
(***************************************************************************)
EXTENDS Integers, Sequences, FiniteSets, TLC

VARIABLES
    cls,        \* class of the rule instance (self.__class__.__name__)
    self,       \* the rule instance: attribute name -> value
    contracts,  \* the engine's contract table: vt_symbol -> ContractData
    orders,     \* the gateway's orders: vt_orderid -> status last notified
    calls,      \* history: request -> number of check_allowed calls made with it
    op,         \* the method called last
    arg,        \* its argument
    ret,        \* its return value (None for a void method)
    exc,        \* the exception it ended with (None when it returned)
    log,        \* the messages it passed to write_log
    events,     \* the number of times it called put_event
    sink        \* the engine's log sink: "up", or "down" (its write_log raises)

vars == <<cls, self, contracts, orders, calls, op, arg, ret, exc, log, events,
          sink>>

None == "None"

(***************************************************************************)
(* Bounds of the model.                                                    *)
(***************************************************************************)
\* check_allowed calls made per request fingerprint (DuplicateOrderRule)
MaxDuplicateCalls == 11

\* check_allowed calls made in all, where the requests differ field by field
MaxFingerprintCalls == 4

(***************************************************************************)
(* Python values.                                                          *)
(***************************************************************************)
\* units per 1.0 of a price, tick size or order value (1e-7 resolution)
PriceScale == 10 ^ 7

\* an empty dict
EmptyDict == [k \in {} |-> 0]

\* d[k] of a dict read without inserting (d.get(k, 0))
DictGet(d, k) == IF k \in DOMAIN d THEN d[k] ELSE 0

\* d[k] on a collections.defaultdict(int): the read inserts a missing key
DefaultDictRead(d, k) == IF k \in DOMAIN d THEN d ELSE d @@ (k :> 0)

\* d[k] += 1 on a collections.defaultdict(int)
DefaultDictIncr(d, k) == [DefaultDictRead(d, k) EXCEPT ![k] = @ + 1]

\* the sum of d[k] over the keys k
RECURSIVE SumOver(_, _)
SumOver(d, keys) ==
    IF keys = {} THEN 0
    ELSE LET k == CHOOSE key \in keys : TRUE
         IN  d[k] + SumOver(d, keys \ {k})

\* sum(d.values())
SumValues(d) == SumOver(d, DOMAIN d)

\* the decimal digits of the fraction f / 10^width, without trailing zeros
RECURSIVE FracStr(_, _)
FracStr(f, width) ==
    IF width = 0 \/ f = 0 THEN ""
    ELSE LET top == 10 ^ (width - 1)
         IN  ToString(f \div top) \o FracStr(f % top, width - 1)

\* str() of a non-negative float given as whole + frac / PriceScale
FloatStr(whole, frac) ==
    ToString(whole) \o "." \o (IF frac = 0 THEN "0" ELSE FracStr(frac, 7))

\* str() of a float given in units of 1 / PriceScale
PriceStr(p) ==
    IF p < 0 THEN "-" \o FloatStr((-p) \div PriceScale, (-p) % PriceScale)
    ELSE FloatStr(p \div PriceScale, p % PriceScale)

(***************************************************************************)
(* Class attributes of the Python wrapper classes.                         *)
(***************************************************************************)
\* CustomRule stands for the Python-style subclasses RuleTemplate.__init__
\* reads the metadata of: it declares a parameter its on_init sets and a
\* variable that no code assigns
Classes ==
    {"RuleTemplate", "DuplicateOrderRule", "DailyLimitRule", "ActiveOrderRule",
     "OrderSizeRule", "OrderValidityRule", "CustomRule"}

ClassName(c) ==
    CASE c = "DuplicateOrderRule" -> "Duplicate Order Check"
      [] c = "DailyLimitRule"     -> "Daily Limit Check"
      [] c = "ActiveOrderRule"    -> "Active Order Check"
      [] c = "OrderSizeRule"      -> "Order Size Check"
      [] c = "OrderValidityRule"  -> "Order Validity Check"
      [] c = "CustomRule"         -> "Custom Check"
      [] OTHER                    -> ""

ClassParameters(c) ==
    CASE c = "DuplicateOrderRule" ->
            [duplicate_order_limit |-> "Duplicate Order Limit"]
      [] c = "DailyLimitRule" ->
            [total_order_limit     |-> "Total Order Limit",
             total_cancel_limit    |-> "Total Cancel Limit",
             total_trade_limit     |-> "Total Trade Limit",
             contract_order_limit  |-> "Contract Order Limit",
             contract_cancel_limit |-> "Contract Cancel Limit",
             contract_trade_limit  |-> "Contract Trade Limit"]
      [] c = "ActiveOrderRule" ->
            [active_order_limit |-> "Active Order Limit"]
      [] c = "OrderSizeRule" ->
            [order_volume_limit |-> "Order Volume Limit",
             order_value_limit  |-> "Order Value Limit"]
      [] c = "CustomRule" ->
            [custom_limit |-> "Custom Limit"]
      [] OTHER -> EmptyDict

ClassVariables(c) ==
    CASE c = "DuplicateOrderRule" ->
            [duplicate_order_count |-> "Duplicate Order Count"]
      [] c = "DailyLimitRule" ->
            [total_order_count     |-> "Total Order Count",
             total_cancel_count    |-> "Total Cancel Count",
             total_trade_count     |-> "Total Trade Count",
             contract_order_count  |-> "Contract Order Count",
             contract_cancel_count |-> "Contract Cancel Count",
             contract_trade_count  |-> "Contract Trade Count"]
      [] c = "ActiveOrderRule" ->
            [active_order_count |-> "Active Order Count"]
      [] c = "CustomRule" ->
            [custom_count |-> "Custom Count"]
      [] OTHER -> EmptyDict

(***************************************************************************)
(* C float: a value q * 2^(e - 23) with 2^23 <= q < 2^24, or zero (q = 0). *)
(* OrderSizeRuleCy declares order_value_limit and the local order_value as *)
(* `float`, which in a cdef context is the 32-bit C type: a Python float   *)
(* stored in either is rounded to nearest, ties to even.  Only values      *)
(* n / d >= 0 with n \div d < 2^24 are converted.                          *)
(***************************************************************************)
\* shift fraction bits of r / d into q until q has 24 bits
RECURSIVE F32Norm(_, _, _, _)
F32Norm(q, r, d, e) ==
    IF q >= 2 ^ 23 THEN [q |-> q, r |-> r, e |-> e]
    ELSE F32Norm(2 * q + (IF 2 * r >= d THEN 1 ELSE 0),
                 IF 2 * r >= d THEN 2 * r - d ELSE 2 * r, d, e - 1)

\* n / d > 0 cut to 24 significant bits: n / d = (q + r / d) * 2^(e - 23)
F32Trunc(n, d) == F32Norm(n \div d, n % d, d, 23)

\* round to nearest, ties to even
F32Round(t, d) ==
    LET up == 2 * t.r > d \/ (2 * t.r = d /\ t.q % 2 = 1)
        q1 == IF up THEN t.q + 1 ELSE t.q
    IN  IF q1 = 2 ^ 24 THEN [q |-> 2 ^ 23, e |-> t.e + 1]
        ELSE [q |-> q1, e |-> t.e]

\* (float) of the double n / d
F32(n, d) == IF n = 0 THEN [q |-> 0, e |-> 0] ELSE F32Round(F32Trunc(n, d), d)

\* a > b on C floats
F32Gt(a, b) ==
    IF a.q = 0 THEN FALSE
    ELSE IF b.q = 0 THEN TRUE
    ELSE a.e > b.e \/ (a.e = b.e /\ a.q > b.q)

\* n / d > b, the double n / d compared exactly with the value of the C float b
ExactGtF32(n, d, b) ==
    IF n = 0 THEN FALSE
    ELSE IF b.q = 0 THEN TRUE
    ELSE LET t == F32Trunc(n, d)
         IN  t.e > b.e \/ (t.e = b.e /\ (t.q > b.q \/ (t.q = b.q /\ t.r > 0)))

\* the double n / d is a value a C float holds: the conversion loses nothing
F32Holds(n, d) == n = 0 \/ F32Trunc(n, d).r = 0

(***************************************************************************)
(* RuleTemplate.                                                           *)
(***************************************************************************)
\* setattr(self, name, value): a cdef public attribute converts the value to
\* its C type
SetAttrValue(name, value) ==
    IF name = "order_value_limit" THEN F32(value, PriceScale) ELSE value

\* getattr(self, name) == value in Python, for got the attribute as the model
\* holds it: a C float attribute reads back as the double of the same value,
\* which equals the double given only when the C float holds it
ReadsBackAs(name, got, value) ==
    IF name = "order_value_limit"
    THEN got = F32(value, PriceScale) /\ F32Holds(value, PriceScale)
    ELSE got = value

\* mutant: every key of the settings is assigned
update_setting_EveryKey(s, rule_setting) ==
    [name \in DOMAIN s \cup DOMAIN rule_setting |->
        IF name \in DOMAIN rule_setting
        THEN SetAttrValue(name, rule_setting[name])
        ELSE s[name]]

\* RuleTemplate.update_setting
update_setting(s, rule_setting) ==
    LET assigned == DOMAIN s.parameters \cap DOMAIN rule_setting
    IN  [name \in DOMAIN s \cup assigned |->
            IF name \in assigned THEN SetAttrValue(name, rule_setting[name])
            ELSE s[name]]

\* on_init of each class: the defaults of its parameters and its empty state
on_init(c, s) ==
    CASE c = "DuplicateOrderRule" ->
            s @@ [duplicate_order_limit |-> 10,
                  duplicate_order_count |-> EmptyDict]
      [] c = "DailyLimitRule" ->
            s @@ [total_order_limit     |-> 20000,
                  total_cancel_limit    |-> 10000,
                  total_trade_limit     |-> 10000,
                  contract_order_limit  |-> 2000,
                  contract_cancel_limit |-> 1000,
                  contract_trade_limit  |-> 1000,
                  all_orderids          |-> {},
                  cancel_orderids       |-> {},
                  all_tradeids          |-> {},
                  total_order_count     |-> 0,
                  total_cancel_count    |-> 0,
                  total_trade_count     |-> 0,
                  contract_order_count  |-> EmptyDict,
                  contract_cancel_count |-> EmptyDict,
                  contract_trade_count  |-> EmptyDict]
      [] c = "ActiveOrderRule" ->
            s @@ [active_order_limit |-> 50,
                  active_orders      |-> EmptyDict,
                  active_order_count |-> 0]
      [] c = "OrderSizeRule" ->
            s @@ [order_volume_limit |-> 500,
                  order_value_limit  |-> F32(1000000, 1)]
      [] c = "CustomRule" ->
            s @@ [custom_limit |-> 5]
      [] OTHER -> s

\* RuleTemplate.__init__
RuleTemplate__init__(c, setting) ==
    LET s0 == [name |-> "", parameters |-> EmptyDict, variables |-> EmptyDict,
               active |-> TRUE]
        s1 == [s0 EXCEPT !.name = ClassName(c),
                         !.parameters = ClassParameters(c),
                         !.variables = ClassVariables(c)]
        s2 == on_init(c, s1)
        s3 == [s2 EXCEPT !.parameters =
                  s2.parameters @@ [active |-> "Activate Rule"]]
    IN  update_setting(s3, setting)

\* mutant: the snapshot leaves out the names that are not attributes
get_data_PresentOnly(c, s) ==
    [name       |-> s.name,
     class_name |-> c,
     parameters |-> [n \in DOMAIN s.parameters \cap DOMAIN s |-> s[n]],
     variables  |-> [n \in DOMAIN s.variables \cap DOMAIN s |-> s[n]]]

\* RuleTemplate.get_data
get_data(c, s) ==
    [name       |-> s.name,
     class_name |-> c,
     parameters |-> [n \in DOMAIN s.parameters |->
                        IF n \in DOMAIN s THEN s[n] ELSE None],
     variables  |-> [n \in DOMAIN s.variables |->
                        IF n \in DOMAIN s THEN s[n] ELSE None]]

(***************************************************************************)
(* Inputs: the requests, settings and contract tables the engine passes.   *)
(***************************************************************************)
\* an OrderRequest; volume is a whole float, price a float in 1 / PriceScale
Request(symbol, type, direction, offset, volume, price) ==
    [vt_symbol |-> symbol, type |-> type, direction |-> direction,
     offset |-> offset, volume |-> volume, price |-> price]

\* requests differing in the price alone
DuplicateRequests ==
    {Request("IF2412.CFFEX", "LIMIT", "LONG", "OPEN", 1, 105 * (PriceScale \div 10)),
     Request("IF2412.CFFEX", "LIMIT", "LONG", "OPEN", 1, 1025 * (PriceScale \div 100))}

\* a request, the six requests that differ from it in one field each, and
\* one that differs from it in every field
FingerprintRequests ==
    {Request("IF2412.CFFEX", "LIMIT", "LONG", "OPEN", 1, 105 * (PriceScale \div 10)),
     Request("rb2501.SHFE", "LIMIT", "LONG", "OPEN", 1, 105 * (PriceScale \div 10)),
     Request("IF2412.CFFEX", "MARKET", "LONG", "OPEN", 1, 105 * (PriceScale \div 10)),
     Request("IF2412.CFFEX", "LIMIT", "SHORT", "OPEN", 1, 105 * (PriceScale \div 10)),
     Request("IF2412.CFFEX", "LIMIT", "LONG", "CLOSE", 1, 105 * (PriceScale \div 10)),
     Request("IF2412.CFFEX", "LIMIT", "LONG", "OPEN", 10, 105 * (PriceScale \div 10)),
     Request("IF2412.CFFEX", "LIMIT", "LONG", "OPEN", 1, 5 * (PriceScale \div 10)),
     Request("rb2501.SHFE", "MARKET", "SHORT", "CLOSE", 3, 0)}

\* the instruments: two that are traded and one no event ever names
Symbols == {"IF2412.CFFEX", "rb2501.SHFE", "au2506.SHFE"}

\* vnpy.trader.constant.Status, and the statuses OrderData.is_active() accepts
Statuses == {"NOTTRADED", "PARTTRADED", "ALLTRADED", "CANCELLED"}

ActiveStatuses == {"SUBMITTING", "NOTTRADED", "PARTTRADED"}

OrderIds == {"CTP.1", "CTP.2", "CTP.3"}

\* every order belongs to one instrument
OrderSymbol(vt_orderid) ==
    IF vt_orderid = "CTP.3" THEN "rb2501.SHFE" ELSE "IF2412.CFFEX"

\* the OrderData notifications
Orders ==
    {[vt_orderid |-> id, vt_symbol |-> OrderSymbol(id), status |-> st] :
        id \in OrderIds, st \in Statuses}

TradeIds == {"CTP.T1", "CTP.T2"}

\* the TradeData notifications
Trades ==
    {[vt_tradeid |-> "CTP.T1", vt_symbol |-> "IF2412.CFFEX"],
     [vt_tradeid |-> "CTP.T2", vt_symbol |-> "rb2501.SHFE"]}

\* one market request per instrument
DailyRequests == {Request(sym, "MARKET", "LONG", "OPEN", 1, 0) : sym \in Symbols}

\* the TickData notifications
Ticks == {[vt_symbol |-> "IF2412.CFFEX"], [vt_symbol |-> "rb2501.SHFE"]}

\* two requests that have no field in common
ActiveRequests ==
    {Request("IF2412.CFFEX", "LIMIT", "LONG", "OPEN", 1, 105 * (PriceScale \div 10)),
     Request("rb2501.SHFE", "MARKET", "SHORT", "CLOSE", 3, 0)}

\* a float given in hundred-thousandths, in units of 1 / PriceScale
Price(n) == n * (PriceScale \div 100000)

\* a ContractData; max_volume 0 is an unset (None or 0) maximum
Contract(pricetick, min_volume, max_volume, size) ==
    [pricetick |-> pricetick, min_volume |-> min_volume,
     max_volume |-> max_volume, size |-> size]

\* the contract tables of the engine: none, and two of the traded instruments
\* with tick sizes 0.5, 0 and -0.5; no table knows au2506.SHFE
ContractTables(c) ==
    IF c \in {"OrderSizeRule", "OrderValidityRule"}
    THEN {EmptyDict,
          ("IF2412.CFFEX" :> Contract(Price(50000), 1, 0, 1)) @@
              ("rb2501.SHFE" :> Contract(0, 2, 100, 10)),
          ("IF2412.CFFEX" :> Contract(0, 2, 100, 2)) @@
              ("rb2501.SHFE" :> Contract(- Price(50000), 1, 0, 10))}
    ELSE {EmptyDict}

\* market requests at and over the default volume limit, and limit requests
\* of small volume whose value is near 100.0
SizeRequests ==
    {Request(sym, "MARKET", "LONG", "OPEN", vol, 0) :
        sym \in {"IF2412.CFFEX", "au2506.SHFE"}, vol \in {500, 501}}
    \cup
    {Request(sym, "LIMIT", "LONG", "OPEN", 1, price) :
        sym \in {"IF2412.CFFEX", "au2506.SHFE"},
        price \in {Price(5000000), Price(10000000), Price(10000000) + 30,
                   Price(10000001)}}
    \cup
    {Request("rb2501.SHFE", "LIMIT", "SHORT", "CLOSE", 2, price) :
        price \in {Price(500000), Price(550000)}}

\* limit requests on and off the tick of 0.5, within 1e-6 of it on either
\* side and just outside, with volumes around the contracts' bounds
ValidityRequests ==
    {Request(sym, "LIMIT", "LONG", "OPEN", vol, price) :
        sym \in Symbols, vol \in {1, 2, 100, 101},
        price \in {Price(1050000), Price(1030000), Price(1050000) + 5,
                   Price(1050000) - 5, Price(1050000) + 20, Price(1050000) - 20,
                   - Price(1030000)}}

\* the settings mappings passed to __init__ and update_setting
Settings(c) ==
    CASE c = "DuplicateOrderRule" ->
            {EmptyDict,
             [duplicate_order_limit |-> 2],
             [duplicate_order_limit |-> 3, active |-> FALSE],
             [not_a_param |-> 1, duplicate_order_count |-> EmptyDict]}
      [] c = "DailyLimitRule" ->
            {EmptyDict,
             [contract_order_limit |-> 2, contract_cancel_limit |-> 1,
              contract_trade_limit |-> 1, total_order_limit |-> 3,
              total_cancel_limit |-> 2, total_trade_limit |-> 2],
             [total_order_limit |-> 3, active |-> FALSE],
             [not_a_param |-> 1, total_order_count |-> 7]}
      [] c = "ActiveOrderRule" ->
            {EmptyDict,
             [active_order_limit |-> 2],
             [active_order_limit |-> 1, active |-> FALSE],
             [not_a_param |-> 1, active_order_count |-> 7]}
      [] c = "OrderSizeRule" ->
            {EmptyDict,
             [order_value_limit |-> Price(10000000)],
             [order_volume_limit |-> 1, order_value_limit |-> Price(10000),
              active |-> FALSE],
             [not_a_param |-> 1]}
      [] c = "CustomRule" ->
            {EmptyDict,
             [custom_limit |-> 7],
             [custom_limit |-> 3, active |-> FALSE],
             [not_a_param |-> 1, custom_count |-> 1]}
      [] OTHER -> {EmptyDict, [active |-> FALSE], [not_a_param |-> 1]}

(***************************************************************************)
(* One call of a method.  A method is an operator from the instance and    *)
(* the argument to the record r of its effects: r.self the instance after  *)
(* the call, r.ret the value returned, r.log the messages passed to        *)
(* write_log and r.events the number of put_event calls.                   *)
(***************************************************************************)
\* the effects of a void method that logs nothing
Void(r) == [self |-> r.self, ret |-> None, events |-> r.events, log |-> <<>>]

\* RuleTemplate.write_log passes the message to the engine's write_log and
\* catches nothing.  When the sink raises, the exception either leaves the
\* cpdef void write_log and the cpdef bint check_allowed that called it, or
\* is reported as unraisable and dropped inside write_log: which of the two
\* depends on the Cython release that compiles the rule (exceptions of cdef
\* functions propagate by default since Cython 3).  Every rule calls
\* write_log last, just before `return False`.
WriteLogOutcomes(messages) ==
    IF messages # <<>> /\ sink = "down" THEN {"returned", "raised"}
    ELSE {"returned"}

\* the engine calls method `name` with `argument`; r are the method's effects
Call(name, argument, r) ==
    /\ op' = name
    /\ arg' = argument
    /\ self' = r.self
    /\ log' = r.log
    /\ events' = r.events
    /\ \E outcome \in WriteLogOutcomes(r.log) :
          IF outcome = "returned"
          THEN ret' = r.ret /\ exc' = None
          ELSE ret' = None /\ exc' = "Exception"
    /\ UNCHANGED <<cls, contracts, sink>>

(***************************************************************************)
(* DuplicateOrderRule.                                                     *)
(***************************************************************************)
\* mutant: the fingerprint leaves out the offset
format_req_NoOffset(req) ==
    req.vt_symbol \o "|" \o req.type \o "|" \o req.direction \o "|"
        \o FloatStr(req.volume, 0) \o "@" \o PriceStr(req.price)

\* DuplicateOrderRuleCy.format_req
format_req(req) ==
    req.vt_symbol \o "|" \o req.type \o "|" \o req.direction \o "|"
        \o req.offset \o "|" \o FloatStr(req.volume, 0) \o "@" \o PriceStr(req.price)

\* mutant: the limit is reached only when exceeded
DuplicateLimitReached_Exceeded(duplicate_order_count, duplicate_order_limit) ==
    duplicate_order_count > duplicate_order_limit

\* the comparison of check_allowed with the count after the increment
DuplicateLimitReached(duplicate_order_count, duplicate_order_limit) ==
    duplicate_order_count >= duplicate_order_limit

\* DuplicateOrderRuleCy.check_allowed: the instance after the call, the
\* result, the log and the number of put_event calls
duplicate_check_allowed(s, req) ==
    LET req_str == format_req(req)
        counts  == DefaultDictIncr(s.duplicate_order_count, req_str)
        duplicate_order_count == counts[req_str]
        s1 == [s EXCEPT !.duplicate_order_count = counts]
    IN  IF DuplicateLimitReached(duplicate_order_count, s.duplicate_order_limit)
        THEN [self |-> s1, ret |-> FALSE, events |-> 1,
              log |-> << <<"Duplicate Order Count", duplicate_order_count,
                           s.duplicate_order_limit>> >>]
        ELSE [self |-> s1, ret |-> TRUE, events |-> 1, log |-> <<>>]

DuplicateOrderRuleCy_check_allowed(req) ==
    /\ cls = "DuplicateOrderRule"
    /\ DictGet(self.duplicate_order_count, format_req(req)) < MaxDuplicateCalls
    /\ Call("check_allowed", req, duplicate_check_allowed(self, req))
    /\ calls' = [calls EXCEPT ![req] = @ + 1]
    /\ UNCHANGED orders

(***************************************************************************)
(* DailyLimitRule.                                                         *)
(***************************************************************************)
\* mutant: a limit is reached only when exceeded
LimitReached_Exceeded(count, limit) == count > limit

\* each of the six comparisons of check_allowed
LimitReached(count, limit) == count >= limit

\* DailyLimitRuleCy.check_allowed: the instance after the call (the reads of
\* the per-symbol defaultdicts insert the symbol), the result, the log and
\* the number of put_event calls
daily_check_allowed(s, req) ==
    LET vt_symbol == req.vt_symbol
        orders1   == DefaultDictRead(s.contract_order_count, vt_symbol)
        cancels1  == DefaultDictRead(s.contract_cancel_count, vt_symbol)
        trades1   == DefaultDictRead(s.contract_trade_count, vt_symbol)
        s1 == [s  EXCEPT !.contract_order_count = orders1]
        s2 == [s1 EXCEPT !.contract_cancel_count = cancels1]
        s3 == [s2 EXCEPT !.contract_trade_count = trades1]
        Deny(state, what, count, limit) ==
            [self |-> state, ret |-> FALSE, events |-> 0,
             log |-> << <<what, count, limit>> >>]
    IN  IF LimitReached(orders1[vt_symbol], s.contract_order_limit)
        THEN Deny(s1, "Contract Order Count", orders1[vt_symbol],
                  s.contract_order_limit)
        ELSE IF LimitReached(cancels1[vt_symbol], s.contract_cancel_limit)
        THEN Deny(s2, "Contract Cancel Count", cancels1[vt_symbol],
                  s.contract_cancel_limit)
        ELSE IF LimitReached(trades1[vt_symbol], s.contract_trade_limit)
        THEN Deny(s3, "Contract Trade Count", trades1[vt_symbol],
                  s.contract_trade_limit)
        ELSE IF LimitReached(s.total_order_count, s.total_order_limit)
        THEN Deny(s3, "Total Order Count", s.total_order_count,
                  s.total_order_limit)
        ELSE IF LimitReached(s.total_cancel_count, s.total_cancel_limit)
        THEN Deny(s3, "Total Cancel Count", s.total_cancel_count,
                  s.total_cancel_limit)
        ELSE IF LimitReached(s.total_trade_count, s.total_trade_limit)
        THEN Deny(s3, "Total Trade Count", s.total_trade_count,
                  s.total_trade_limit)
        ELSE [self |-> s3, ret |-> TRUE, events |-> 0, log |-> <<>>]

DailyLimitRuleCy_check_allowed(req) ==
    /\ cls = "DailyLimitRule"
    /\ Call("check_allowed", req, daily_check_allowed(self, req))
    /\ UNCHANGED <<orders, calls>>

\* mutant: every CANCELLED notification of a recorded order counts a cancel
daily_on_order_EveryCancel(s, order) ==
    LET vt_orderid == order.vt_orderid
        vt_symbol  == order.vt_symbol
    IN  IF vt_orderid \notin s.all_orderids
        THEN [self |-> [s EXCEPT
                  !.all_orderids = @ \cup {vt_orderid},
                  !.total_order_count = @ + 1,
                  !.contract_order_count = DefaultDictIncr(@, vt_symbol)],
              events |-> 1]
        ELSE IF order.status = "CANCELLED"
        THEN [self |-> [s EXCEPT
                  !.cancel_orderids = @ \cup {vt_orderid},
                  !.total_cancel_count = @ + 1,
                  !.contract_cancel_count = DefaultDictIncr(@, vt_symbol)],
              events |-> 1]
        ELSE [self |-> s, events |-> 0]

\* mutant: a CANCELLED notification counts a cancel whether or not the order
\* was recorded before
daily_on_order_CancelUnseen(s, order) ==
    LET vt_orderid == order.vt_orderid
        vt_symbol  == order.vt_symbol
    IN  IF order.status = "CANCELLED" /\ vt_orderid \notin s.cancel_orderids
        THEN [self |-> [s EXCEPT
                  !.cancel_orderids = @ \cup {vt_orderid},
                  !.total_cancel_count = @ + 1,
                  !.contract_cancel_count = DefaultDictIncr(@, vt_symbol)],
              events |-> 1]
        ELSE IF vt_orderid \notin s.all_orderids
        THEN [self |-> [s EXCEPT
                  !.all_orderids = @ \cup {vt_orderid},
                  !.total_order_count = @ + 1,
                  !.contract_order_count = DefaultDictIncr(@, vt_symbol)],
              events |-> 1]
        ELSE [self |-> s, events |-> 0]

\* DailyLimitRuleCy.on_order: the instance after the call and the number of
\* put_event calls
daily_on_order(s, order) ==
    LET vt_orderid == order.vt_orderid
        vt_symbol  == order.vt_symbol
    IN  IF vt_orderid \notin s.all_orderids
        THEN [self |-> [s EXCEPT
                  !.all_orderids = @ \cup {vt_orderid},
                  !.total_order_count = @ + 1,
                  !.contract_order_count = DefaultDictIncr(@, vt_symbol)],
              events |-> 1]
        ELSE IF order.status = "CANCELLED" /\ vt_orderid \notin s.cancel_orderids
        THEN [self |-> [s EXCEPT
                  !.cancel_orderids = @ \cup {vt_orderid},
                  !.total_cancel_count = @ + 1,
                  !.contract_cancel_count = DefaultDictIncr(@, vt_symbol)],
              events |-> 1]
        ELSE [self |-> s, events |-> 0]

DailyLimitRuleCy_on_order(order) ==
    /\ cls = "DailyLimitRule"
    /\ Call("on_order", order, Void(daily_on_order(self, order)))
    /\ UNCHANGED <<orders, calls>>

\* mutant: a first notification of a trade adds to the global count alone
daily_on_trade_GlobalOnly(s, trade) ==
    IF trade.vt_tradeid \in s.all_tradeids
    THEN [self |-> s, events |-> 0]
    ELSE [self |-> [s EXCEPT
              !.all_tradeids = @ \cup {trade.vt_tradeid},
              !.total_trade_count = @ + 1],
          events |-> 1]

\* mutant: every notification of a trade is counted
daily_on_trade_EveryNotification(s, trade) ==
    [self |-> [s EXCEPT
         !.all_tradeids = @ \cup {trade.vt_tradeid},
         !.total_trade_count = @ + 1,
         !.contract_trade_count = DefaultDictIncr(@, trade.vt_symbol)],
     events |-> 1]

\* DailyLimitRuleCy.on_trade
daily_on_trade(s, trade) ==
    IF trade.vt_tradeid \in s.all_tradeids
    THEN [self |-> s, events |-> 0]
    ELSE [self |-> [s EXCEPT
              !.all_tradeids = @ \cup {trade.vt_tradeid},
              !.total_trade_count = @ + 1,
              !.contract_trade_count = DefaultDictIncr(@, trade.vt_symbol)],
          events |-> 1]

DailyLimitRuleCy_on_trade(trade) ==
    /\ cls = "DailyLimitRule"
    /\ Call("on_trade", trade, Void(daily_on_trade(self, trade)))
    /\ UNCHANGED <<orders, calls>>

(***************************************************************************)
(* ActiveOrderRule.                                                        *)
(***************************************************************************)
\* OrderData.is_active()
is_active(order) == order.status \in ActiveStatuses

\* mutant: the limit is reached only when exceeded
ActiveLimitReached_Exceeded(active_order_count, active_order_limit) ==
    active_order_count > active_order_limit

\* the comparison of check_allowed
ActiveLimitReached(active_order_count, active_order_limit) ==
    active_order_count >= active_order_limit

\* mutant: a rule that is not active allows every request
active_check_allowed_SkipInactive(s, req) ==
    IF s.active /\ ActiveLimitReached(s.active_order_count, s.active_order_limit)
    THEN [self |-> s, ret |-> FALSE, events |-> 0,
          log |-> << <<"Active Order Count", s.active_order_count,
                       s.active_order_limit>> >>]
    ELSE [self |-> s, ret |-> TRUE, events |-> 0, log |-> <<>>]

\* ActiveOrderRuleCy.check_allowed
active_check_allowed(s, req) ==
    IF ActiveLimitReached(s.active_order_count, s.active_order_limit)
    THEN [self |-> s, ret |-> FALSE, events |-> 0,
          log |-> << <<"Active Order Count", s.active_order_count,
                       s.active_order_limit>> >>]
    ELSE [self |-> s, ret |-> TRUE, events |-> 0, log |-> <<>>]

ActiveOrderRuleCy_check_allowed(req) ==
    /\ cls = "ActiveOrderRule"
    /\ Call("check_allowed", req, active_check_allowed(self, req))
    /\ UNCHANGED <<orders, calls>>

\* mutant: the count is stepped up and down by the notifications instead of
\* taken from the mapping
active_on_order_SteppedCount(s, order) ==
    LET vt_orderid == order.vt_orderid
        old == s.active_orders
        active_orders ==
            IF is_active(order)
            THEN [id \in DOMAIN old \cup {vt_orderid} |->
                     IF id = vt_orderid THEN order ELSE old[id]]
            ELSE IF vt_orderid \in DOMAIN old
            THEN [id \in DOMAIN old \ {vt_orderid} |-> old[id]]
            ELSE old
    IN  [s EXCEPT !.active_orders = active_orders,
                  !.active_order_count =
                      IF is_active(order)
                      THEN Cardinality(DOMAIN active_orders)
                      ELSE @ - 1]

\* mutant: an inactive order is not removed
active_on_order_NoPop(s, order) ==
    LET vt_orderid == order.vt_orderid
        old == s.active_orders
        active_orders ==
            IF is_active(order)
            THEN [id \in DOMAIN old \cup {vt_orderid} |->
                     IF id = vt_orderid THEN order ELSE old[id]]
            ELSE old
    IN  [s EXCEPT !.active_orders = active_orders,
                  !.active_order_count = Cardinality(DOMAIN active_orders)]

\* ActiveOrderRuleCy.on_order: the instance after the call
active_on_order(s, order) ==
    LET vt_orderid == order.vt_orderid
        old == s.active_orders
        active_orders ==
            IF is_active(order)
            THEN [id \in DOMAIN old \cup {vt_orderid} |->
                     IF id = vt_orderid THEN order ELSE old[id]]
            ELSE IF vt_orderid \in DOMAIN old
            THEN [id \in DOMAIN old \ {vt_orderid} |-> old[id]]
            ELSE old
    IN  [s EXCEPT !.active_orders = active_orders,
                  !.active_order_count = Cardinality(DOMAIN active_orders)]

ActiveOrderRuleCy_on_order(order) ==
    /\ cls = "ActiveOrderRule"
    /\ Call("on_order", order,
            Void([self |-> active_on_order(self, order), events |-> 1]))
    /\ orders' = [id \in DOMAIN orders \cup {order.vt_orderid} |->
                     IF id = order.vt_orderid THEN order.status ELSE orders[id]]
    /\ UNCHANGED calls

(***************************************************************************)
(* OrderSizeRule.                                                          *)
(***************************************************************************)
\* RuleTemplate.get_contract found a contract (`if contract`)
HasContract(vt_symbol) == vt_symbol \in DOMAIN contracts

\* the double req.volume * req.price * contract.size, in 1 / PriceScale
OrderValue(req) == req.volume * req.price * contracts[req.vt_symbol].size

\* the comparison of the value: order_value and order_value_limit are C floats
ValueLimitExceeded(req, order_value_limit) ==
    F32Gt(F32(OrderValue(req), PriceScale), order_value_limit)

\* OrderSizeRuleCy.check_allowed
size_check_allowed(s, req) ==
    IF req.volume > s.order_volume_limit
    THEN [self |-> s, ret |-> FALSE, events |-> 0,
          log |-> << <<"Order Volume", req.volume, s.order_volume_limit>> >>]
    ELSE IF /\ HasContract(req.vt_symbol)
            /\ req.price # 0
            /\ ValueLimitExceeded(req, s.order_value_limit)
    THEN [self |-> s, ret |-> FALSE, events |-> 0,
          log |-> << <<"Order Value", F32(OrderValue(req), PriceScale),
                       s.order_value_limit>> >>]
    ELSE [self |-> s, ret |-> TRUE, events |-> 0, log |-> <<>>]

OrderSizeRuleCy_check_allowed(req) ==
    /\ cls = "OrderSizeRule"
    /\ Call("check_allowed", req, size_check_allowed(self, req))
    /\ UNCHANGED <<orders, calls>>

(***************************************************************************)
(* OrderValidityRule.                                                      *)
(***************************************************************************)
\* 1e-6 in units of 1 / PriceScale
Tolerance == PriceScale \div 1000000

Abs(x) == IF x < 0 THEN -x ELSE x

\* mutant: only a remainder near 0 is accepted
OffTick_OneSided(price, pricetick) ==
    LET remainder == price % pricetick
    IN  Abs(remainder) > Tolerance

\* the price is not a multiple of pricetick > 0: the float remainder (it has
\* the sign of pricetick) is farther than 1e-6 from both 0 and pricetick
OffTick(price, pricetick) ==
    LET remainder == price % pricetick
    IN  Abs(remainder) > Tolerance /\ Abs(remainder - pricetick) > Tolerance

\* OrderValidityRuleCy.check_allowed
validity_check_allowed(s, req) ==
    LET Deny(message) ==
            [self |-> s, ret |-> FALSE, events |-> 0, log |-> <<message>>]
    IN  IF ~HasContract(req.vt_symbol)
        THEN Deny(<<"Contract Code does not exist", req.vt_symbol>>)
        ELSE LET contract == contracts[req.vt_symbol]
             IN  IF contract.pricetick > 0 /\ OffTick(req.price, contract.pricetick)
                 THEN Deny(<<"Price", req.price, contract.pricetick>>)
                 ELSE IF contract.max_volume # 0 /\ req.volume > contract.max_volume
                 THEN Deny(<<"Order Volume max", req.volume, contract.max_volume>>)
                 ELSE IF req.volume < contract.min_volume
                 THEN Deny(<<"Order Volume min", req.volume, contract.min_volume>>)
                 ELSE [self |-> s, ret |-> TRUE, events |-> 0, log |-> <<>>]

OrderValidityRuleCy_check_allowed(req) ==
    /\ cls = "OrderValidityRule"
    /\ Call("check_allowed", req, validity_check_allowed(self, req))
    /\ UNCHANGED <<orders, calls>>

(***************************************************************************)
(* The methods every rule inherits unchanged.                              *)
(***************************************************************************)
\* a method that changes nothing and returns result
NoOp(name, argument, result) ==
    /\ Call(name, argument,
            [self |-> self, ret |-> result, events |-> 0, log |-> <<>>])
    /\ UNCHANGED <<orders, calls>>

\* RuleTemplate.check_allowed
template_check_allowed(s, req) ==
    [self |-> s, ret |-> TRUE, events |-> 0, log |-> <<>>]

RuleTemplate_check_allowed(req) ==
    /\ cls \in {"RuleTemplate", "CustomRule"}
    /\ Call("check_allowed", req, template_check_allowed(self, req))
    /\ UNCHANGED <<orders, calls>>

\* RuleTemplate.on_tick
RuleTemplate_on_tick(tick) == NoOp("on_tick", tick, None)

\* RuleTemplate.on_order
RuleTemplate_on_order(order) ==
    /\ cls \notin {"DailyLimitRule", "ActiveOrderRule"}
    /\ NoOp("on_order", order, None)

\* RuleTemplate.on_trade
RuleTemplate_on_trade(trade) ==
    /\ cls # "DailyLimitRule"
    /\ NoOp("on_trade", trade, None)

\* mutant: the timer starts the counts of the counting rules afresh
RuleTemplate_on_timer_ResetsCounts ==
    /\ Call("on_timer", None,
            Void([self |->
                      IF cls = "DailyLimitRule"
                      THEN [self EXCEPT !.total_order_count = 0,
                                        !.total_cancel_count = 0,
                                        !.total_trade_count = 0,
                                        !.contract_order_count = EmptyDict,
                                        !.contract_cancel_count = EmptyDict,
                                        !.contract_trade_count = EmptyDict]
                      ELSE IF cls = "DuplicateOrderRule"
                      THEN [self EXCEPT !.duplicate_order_count = EmptyDict]
                      ELSE self,
                  events |-> 0]))
    /\ UNCHANGED <<orders, calls>>

\* RuleTemplate.on_timer
RuleTemplate_on_timer == NoOp("on_timer", None, None)

\* RuleTemplate.update_setting, called by the engine on a running rule
RuleTemplate_update_setting(rule_setting) ==
    /\ Call("update_setting", rule_setting,
            Void([self |-> update_setting(self, rule_setting), events |-> 0]))
    /\ UNCHANGED <<orders, calls>>

\* RuleTemplate.get_data
RuleTemplate_get_data ==
    /\ Call("get_data", None,
            [self |-> self, ret |-> get_data(cls, self), events |-> 0,
             log |-> <<>>])
    /\ UNCHANGED <<orders, calls>>

(***************************************************************************)
(* The method a call resolves to, by the class of the instance.            *)
(***************************************************************************)
check_allowed(c, s, req) ==
    CASE c = "DuplicateOrderRule" -> duplicate_check_allowed(s, req)
      [] c = "DailyLimitRule"     -> daily_check_allowed(s, req)
      [] c = "ActiveOrderRule"    -> active_check_allowed(s, req)
      [] c = "OrderSizeRule"      -> size_check_allowed(s, req)
      [] c = "OrderValidityRule"  -> validity_check_allowed(s, req)
      [] OTHER                    -> template_check_allowed(s, req)

on_order(c, s, order) ==
    CASE c = "DailyLimitRule"  -> Void(daily_on_order(s, order))
      [] c = "ActiveOrderRule" ->
            Void([self |-> active_on_order(s, order), events |-> 1])
      [] OTHER -> Void([self |-> s, events |-> 0])

on_trade(c, s, trade) ==
    CASE c = "DailyLimitRule" -> Void(daily_on_trade(s, trade))
      [] OTHER -> Void([self |-> s, events |-> 0])

\* the requests, orders and trades the engine passes to a rule of class c
Requests(c) ==
    CASE c = "DuplicateOrderRule" -> DuplicateRequests
      [] c = "DailyLimitRule"     -> DailyRequests
      [] c = "OrderSizeRule"      -> SizeRequests
      [] c = "OrderValidityRule"  -> ValidityRequests
      [] OTHER                    -> ActiveRequests

(***************************************************************************)
(* The specification.                                                      *)
(***************************************************************************)
AllRequests == DuplicateRequests

\* a rule of class c is constructed in an engine whose log sink is up or down
InitEngine(c, sinks, requests) ==
    /\ cls = c
    /\ \E setting \in Settings(c) :
          /\ self = RuleTemplate__init__(c, setting)
          /\ arg = setting
    /\ contracts \in ContractTables(c)
    /\ orders = EmptyDict
    /\ calls = [req \in requests |-> 0]
    /\ op = "__init__"
    /\ ret = None
    /\ exc = None
    /\ log = <<>>
    /\ events = 0
    /\ sink \in sinks

InitRule(c) == InitEngine(c, {"up"}, AllRequests)

Init == \E c \in Classes : InitRule(c)

\* the calls of the methods no rule overrides
NextInherited ==
    \/ \E rule_setting \in Settings(cls) : RuleTemplate_update_setting(rule_setting)
    \/ \E tick \in Ticks : RuleTemplate_on_tick(tick)
    \/ RuleTemplate_on_timer
    \/ RuleTemplate_get_data

NextTemplate ==
    \/ \E req \in ActiveRequests : RuleTemplate_check_allowed(req)
    \/ \E order \in Orders : RuleTemplate_on_order(order)
    \/ \E trade \in Trades : RuleTemplate_on_trade(trade)

NextDuplicate ==
    \/ \E req \in DuplicateRequests : DuplicateOrderRuleCy_check_allowed(req)
    \/ \E order \in Orders : RuleTemplate_on_order(order)
    \/ \E trade \in Trades : RuleTemplate_on_trade(trade)

NextDaily ==
    \/ \E req \in DailyRequests : DailyLimitRuleCy_check_allowed(req)
    \/ \E order \in Orders : DailyLimitRuleCy_on_order(order)
    \/ \E trade \in Trades : DailyLimitRuleCy_on_trade(trade)

NextActive ==
    \/ \E req \in ActiveRequests : ActiveOrderRuleCy_check_allowed(req)
    \/ \E order \in Orders : ActiveOrderRuleCy_on_order(order)
    \/ \E trade \in Trades : RuleTemplate_on_trade(trade)

NextSize ==
    \/ \E req \in SizeRequests : OrderSizeRuleCy_check_allowed(req)
    \/ \E order \in Orders : RuleTemplate_on_order(order)
    \/ \E trade \in Trades : RuleTemplate_on_trade(trade)

NextValidity ==
    \/ \E req \in ValidityRequests : OrderValidityRuleCy_check_allowed(req)
    \/ \E order \in Orders : RuleTemplate_on_order(order)
    \/ \E trade \in Trades : RuleTemplate_on_trade(trade)

\* the engine calls one method of the rule
Next ==
    \/ NextInherited
    \/ cls \in {"RuleTemplate", "CustomRule"} /\ NextTemplate
    \/ cls = "DuplicateOrderRule" /\ NextDuplicate
    \/ cls = "DailyLimitRule" /\ NextDaily
    \/ cls = "ActiveOrderRule" /\ NextActive
    \/ cls = "OrderSizeRule" /\ NextSize
    \/ cls = "OrderValidityRule" /\ NextValidity

Spec == Init /\ [][Next]_vars

SpecDuplicate ==
    InitRule("DuplicateOrderRule") /\ [][NextInherited \/ NextDuplicate]_vars

SpecDaily == InitRule("DailyLimitRule") /\ [][NextInherited \/ NextDaily]_vars

SpecActive == InitRule("ActiveOrderRule") /\ [][NextInherited \/ NextActive]_vars

SpecSize == InitRule("OrderSizeRule") /\ [][NextInherited \/ NextSize]_vars

SpecValidity ==
    InitRule("OrderValidityRule") /\ [][NextInherited \/ NextValidity]_vars

\* every rule in an engine whose write_log raises
SpecSinkDown ==
    (\E c \in Classes : InitEngine(c, {"down"}, AllRequests)) /\ [][Next]_vars

\* a DuplicateOrderRule checking the requests that differ field by field
NextFingerprint ==
    \E req \in FingerprintRequests :
        /\ SumValues(calls) < MaxFingerprintCalls
        /\ DuplicateOrderRuleCy_check_allowed(req)

SpecFingerprint ==
    /\ InitEngine("DuplicateOrderRule", {"up"}, FingerprintRequests)
    /\ [][NextInherited \/ NextFingerprint]_vars

(***************************************************************************)
(* Properties.                                                             *)
(***************************************************************************)
\* the last call was check_allowed on a rule of class c
Checked(c) == cls = c /\ op = "check_allowed"

\* C1: on a DuplicateOrderRule with duplicate_order_limit = L, the k-th
\* check_allowed call made with one and the same request is denied iff k >= L
\* (with L = 10: calls 1..9 are allowed, call 10 and every later one denied),
\* whatever other calls were made in between.
C1_KthIdenticalCallDeniedIffAtLimit ==
    Checked("DuplicateOrderRule") =>
        /\ ret = FALSE <=> calls[arg] >= self.duplicate_order_limit
        /\ self.duplicate_order_limit = 10 =>
              /\ calls[arg] \in 1..9 => ret = TRUE
              /\ calls[arg] >= 10 => ret = FALSE

\* the 10th identical call under the default limit of 10 is denied, after the
\* other request was checked too
C1_Witness ==
    /\ Checked("DuplicateOrderRule")
    /\ self.duplicate_order_limit = 10
    /\ calls[arg] = 10
    /\ \E other \in DuplicateRequests : other # arg /\ calls[other] > 0
    /\ ret = FALSE

\* C2: on a DailyLimitRule every order identifier is counted at most once as
\* an order and at most once as a cancel, however often and with whatever
\* status it is notified: total_order_count is the number of identifiers in
\* all_orderids and total_cancel_count the number in cancel_orderids.
C2_EachOrderIdCountedOnce ==
    cls = "DailyLimitRule" =>
        /\ self.total_order_count = Cardinality(self.all_orderids)
        /\ self.total_cancel_count = Cardinality(self.cancel_orderids)

\* a CANCELLED notification repeated for an order already counted as
\* cancelled, which changed nothing
C2_Witness ==
    /\ cls = "DailyLimitRule"
    /\ op = "on_order"
    /\ arg.status = "CANCELLED"
    /\ arg.vt_orderid \in self.cancel_orderids
    /\ events = 0
    /\ self.total_cancel_count = 1
    /\ self.total_order_count = 2

\* the step is DailyLimitRuleCy.on_order(order)
DailyOnOrderStep(order) ==
    cls = "DailyLimitRule" /\ op' = "on_order" /\ arg' = order

\* C3 (states): cancels are counted only for recorded orders
C3_CancelsAreRecordedOrders ==
    cls = "DailyLimitRule" =>
        /\ self.cancel_orderids \subseteq self.all_orderids
        /\ self.total_cancel_count <= self.total_order_count

\* C3 (steps): a CANCELLED notification for an identifier not seen before
\* counts one order, total and for its symbol, and no cancel
C3_FirstSightingCancelledStep ==
    \A order \in Orders :
        (/\ DailyOnOrderStep(order)
         /\ order.status = "CANCELLED"
         /\ order.vt_orderid \notin self.all_orderids) =>
            /\ self'.total_order_count = self.total_order_count + 1
            /\ DictGet(self'.contract_order_count, order.vt_symbol)
                  = DictGet(self.contract_order_count, order.vt_symbol) + 1
            /\ self'.total_cancel_count = self.total_cancel_count
            /\ self'.contract_cancel_count = self.contract_cancel_count
            /\ self'.cancel_orderids = self.cancel_orderids

\* C3: DailyLimitRule.on_order counts a CANCELLED notification for an
\* identifier not seen before as an order and not as a cancel; cancel counters
\* only grow for identifiers already in all_orderids, so cancel_orderids is a
\* subset of all_orderids and total_cancel_count <= total_order_count always.
C3_CancelOnlyAfterOrder ==
    [](C3_CancelsAreRecordedOrders) /\ [][C3_FirstSightingCancelledStep]_vars

\* an order whose first notification was CANCELLED: counted as an order, and
\* no cancel is counted
C3_Witness ==
    /\ cls = "DailyLimitRule"
    /\ op = "on_order"
    /\ arg.status = "CANCELLED"
    /\ self.all_orderids = {arg.vt_orderid}
    /\ self.total_order_count = 1
    /\ self.total_cancel_count = 0
    /\ events = 1

\* the six comparisons of DailyLimitRule.check_allowed for symbol sym, in the
\* order they are made: <<log label, count, limit>>
DailyChecks(sym) ==
    << <<"Contract Order Count", DictGet(self.contract_order_count, sym),
         self.contract_order_limit>>,
       <<"Contract Cancel Count", DictGet(self.contract_cancel_count, sym),
         self.contract_cancel_limit>>,
       <<"Contract Trade Count", DictGet(self.contract_trade_count, sym),
         self.contract_trade_limit>>,
       <<"Total Order Count", self.total_order_count, self.total_order_limit>>,
       <<"Total Cancel Count", self.total_cancel_count, self.total_cancel_limit>>,
       <<"Total Trade Count", self.total_trade_count, self.total_trade_limit>> >>

\* the comparisons that fail: the count is not below the limit
DailyFailing(sym) ==
    {i \in 1..6 : ~(DailyChecks(sym)[i][2] < DailyChecks(sym)[i][3])}

\* C4: DailyLimitRule.check_allowed returns true iff for the request's symbol
\* all six counts are below their limits (a symbol without entry counts 0);
\* when several limits are reached the denial logged is the first in the order
\* per-symbol order, cancel, trade, global order, cancel, trade.
C4_AllowedIffAllSixBelowLimit ==
    Checked("DailyLimitRule") =>
        LET failing == DailyFailing(arg.vt_symbol)
        IN  /\ ret = TRUE <=> failing = {}
            /\ failing = {} => log = <<>>
            /\ failing # {} =>
                  LET first == CHOOSE i \in failing : \A j \in failing : i <= j
                  IN  log = << DailyChecks(arg.vt_symbol)[first] >>

\* a denial with three limits reached, of which the per-symbol cancel limit
\* comes first
C4_Witness ==
    /\ Checked("DailyLimitRule")
    /\ ret = FALSE
    /\ DailyFailing(arg.vt_symbol) = {2, 4, 5}
    /\ log[1][1] = "Contract Cancel Count"

\* C5 as claimed: DailyLimitRule.check_allowed is a pure read: it changes no
\* counter, no per-symbol mapping (key sets included) and no identifier set,
\* and emits no update event.
C5_CheckAllowedIsPureRead ==
    [][(cls = "DailyLimitRule" /\ op' = "check_allowed") =>
            (self' = self /\ events' = 0)]_vars

\* the identifiers whose most recent on_order notification was active
LastNotifiedActive == {id \in DOMAIN orders : orders[id] \in ActiveStatuses}

\* C6 (states): the count is the number of identifiers last notified active
C6_CountIsLastNotifiedActive ==
    cls = "ActiveOrderRule" =>
        /\ self.active_order_count = Cardinality(LastNotifiedActive)
        /\ DOMAIN self.active_orders = LastNotifiedActive

\* C6 (steps): a notification changes the count by +1, -1 or 0 according to
\* whether the identifier turns active, turns inactive, or stays as it was
C6_CountStep ==
    \A order \in Orders :
        (cls = "ActiveOrderRule" /\ op' = "on_order" /\ arg' = order) =>
            LET was == order.vt_orderid \in LastNotifiedActive
                now == order.status \in ActiveStatuses
            IN  self'.active_order_count = self.active_order_count +
                    (IF ~was /\ now THEN 1 ELSE IF was /\ ~now THEN -1 ELSE 0)

\* C6: on an ActiveOrderRule active_order_count is always the number of order
\* identifiers whose most recent notification was active; a notification
\* turning an identifier active adds exactly 1, one turning it inactive
\* subtracts exactly 1, a repeated active or inactive one changes nothing.
C6_ActiveCountTracksNotifications ==
    [](C6_CountIsLastNotifiedActive) /\ [][C6_CountStep]_vars

\* the third order turned inactive while the two others are still active
C6_Witness ==
    /\ cls = "ActiveOrderRule"
    /\ op = "on_order"
    /\ arg.status = "CANCELLED"
    /\ DOMAIN orders = OrderIds
    /\ self.active_order_count = 2
    /\ \E id \in DOMAIN self.active_orders :
          self.active_orders[id].status = "PARTTRADED"

\* C7: ActiveOrderRule.check_allowed denies iff active_order_count >=
\* active_order_limit, whatever the request, and changes neither the count
\* nor the active-orders mapping.
C7_ActiveDeniesIffAtLimit ==
    [][\A req \in ActiveRequests :
          (cls = "ActiveOrderRule" /\ op' = "check_allowed" /\ arg' = req) =>
              /\ ret' = FALSE <=>
                    self.active_order_count >= self.active_order_limit
              /\ self' = self]_vars

\* a denial with exactly as many active orders as the limit of 2
C7_Witness ==
    /\ Checked("ActiveOrderRule")
    /\ ret = FALSE
    /\ self.active_order_limit = 2
    /\ self.active_order_count = 2

\* C8 as claimed: OrderSizeRule.check_allowed denies iff volume >
\* order_volume_limit, or the contract resolves, the price is nonzero and
\* volume * price * contract.size > order_value_limit.
C8_SizeDeniesIffOverVolumeOrValue ==
    Checked("OrderSizeRule") =>
        (ret = FALSE <=>
            \/ arg.volume > self.order_volume_limit
            \/ /\ HasContract(arg.vt_symbol)
               /\ arg.price # 0
               /\ ExactGtF32(OrderValue(arg), PriceScale, self.order_value_limit))

\* the disjuncts of C9 for a request
ValidityDenied(req) ==
    \/ req.vt_symbol \notin DOMAIN contracts
    \/ LET contract == contracts[req.vt_symbol]
       IN  \/ /\ contract.pricetick > 0
              /\ (req.price % contract.pricetick) - 0 > Tolerance
              /\ contract.pricetick - (req.price % contract.pricetick) > Tolerance
           \/ contract.max_volume # 0 /\ req.volume > contract.max_volume
           \/ req.volume < contract.min_volume

\* C9: OrderValidityRule.check_allowed denies iff no contract is found, or
\* the tick size is > 0 and price mod tick size is farther than 1e-6 from both
\* 0 and the tick size, or the max volume is set and volume > max volume, or
\* volume < min volume; a tick size <= 0 skips the price check.
C9_ValidityDeniesIff ==
    Checked("OrderValidityRule") => (ret = FALSE <=> ValidityDenied(arg))

\* a price just under a multiple of the tick size (the remainder is within
\* 1e-6 of the tick size, not of 0) is allowed
C9_Witness ==
    /\ Checked("OrderValidityRule")
    /\ ret = TRUE
    /\ contracts[arg.vt_symbol].pricetick > 0
    /\ arg.price % contracts[arg.vt_symbol].pricetick
          = contracts[arg.vt_symbol].pricetick - 5

\* C10: update_setting assigns only attributes that are declared parameters
\* and keys of the settings; settings of unknown keys only change nothing of
\* the rule, and parameters missing from the settings keep their value.
C10_UpdateSettingAssignsOnlyDeclared ==
    [][\A c \in Classes : \A rule_setting \in Settings(c) :
          (cls = c /\ op' = "update_setting" /\ arg' = rule_setting) =>
              /\ DOMAIN self' = DOMAIN self
              /\ \A name \in DOMAIN self :
                    IF name \in DOMAIN self.parameters \cap DOMAIN rule_setting
                    THEN self'[name] = SetAttrValue(name, rule_setting[name])
                    ELSE self'[name] = self[name]
              /\ UNCHANGED <<cls, contracts, orders, calls>>
              /\ events' = 0]_vars

\* settings of unknown keys (one of them the name of a variable) passed to a
\* DailyLimitRule that has counted orders under a limit set before
C10_Witness ==
    /\ cls = "DailyLimitRule"
    /\ op = "update_setting"
    /\ DOMAIN arg = {"not_a_param", "total_order_count"}
    /\ self.total_order_count = 2
    /\ self.total_order_limit = 3
    /\ self.contract_order_limit = 2000

\* C11: round trip of update_setting and get_data.  After update_setting the
\* snapshot of get_data holds, for every declared parameter named in the
\* settings ('active' included), the value given, and for every other
\* declared parameter the value the snapshot held before the update.
C11_UpdateSettingGetDataRoundTrip ==
    [][/\ op' = "update_setting" =>
              \A x \in DOMAIN self'.parameters :
                  IF x \in DOMAIN arg'
                  THEN ReadsBackAs(x, get_data(cls', self').parameters[x],
                                   arg'[x])
                  ELSE get_data(cls', self').parameters[x]
                           = get_data(cls, self).parameters[x]
       /\ (op = "update_setting" /\ op' = "get_data") =>
              \A x \in DOMAIN self.parameters \cap DOMAIN arg :
                  ReadsBackAs(x, ret'.parameters[x], arg[x])]_vars

\* C12: get_data returns (no exception leaves it) a snapshot whose parameter
\* and variable key sets are the declared ones, each key with the value of
\* the attribute of that name, or None when the instance has no such
\* attribute.
C12_GetDataNeverMissesAnAttribute ==
    op = "get_data" =>
        /\ exc = None
        /\ DOMAIN ret.parameters = DOMAIN self.parameters
        /\ DOMAIN ret.variables = DOMAIN self.variables
        /\ \A n \in DOMAIN self.parameters :
              ret.parameters[n] = IF n \in DOMAIN self THEN self[n] ELSE None
        /\ \A n \in DOMAIN self.variables :
              ret.variables[n] = IF n \in DOMAIN self THEN self[n] ELSE None

\* the snapshot of a CustomRule, whose declared variable is no attribute,
\* after its parameter was set
C12_Witness ==
    /\ cls = "CustomRule"
    /\ op = "get_data"
    /\ "custom_count" \in DOMAIN self.variables
    /\ "custom_count" \notin DOMAIN self
    /\ ret.variables["custom_count"] = None
    /\ ret.parameters["custom_limit"] = 3
    /\ ret.parameters["active"] = FALSE

\* the attributes a rule of class c has when on_init returns
Defaults(c) == on_init(c, [active |-> TRUE])

\* C13: after construction with the settings S (arg) the parameters mapping
\* has the key 'active' and the class-declared keys; a declared parameter
\* has the value S[p] when p is a key of S and else the default of on_init
\* (TRUE for active); keys of S that are no declared parameters change
\* nothing: every other attribute is as after a construction with {}.
C13_ConstructionAppliesSettingsOverDefaults ==
    op = "__init__" =>
        /\ DOMAIN self.parameters = {"active"} \cup DOMAIN ClassParameters(cls)
        /\ \A p \in DOMAIN self.parameters :
              IF p \in DOMAIN arg
              THEN ReadsBackAs(p, self[p], arg[p])
              ELSE self[p] = Defaults(cls)[p]
        /\ DOMAIN self = DOMAIN RuleTemplate__init__(cls, EmptyDict)
        /\ \A n \in DOMAIN self \ DOMAIN ClassParameters(cls) :
              n # "active" => self[n] = RuleTemplate__init__(cls, EmptyDict)[n]

\* C14: check_allowed always returns a boolean, also when the engine's
\* write_log raises while the denial is logged: no exception leaves the
\* call, and a call that logged a denial returns False.
C14_CheckAllowedReturnsDespiteLogFailure ==
    op = "check_allowed" =>
        /\ exc = None
        /\ ret \in BOOLEAN
        /\ log # <<>> => ret = FALSE

\* the copy of the instance s that differs from it in the value of active
FlipActive(s) == [s EXCEPT !.active = ~@]

\* the attributes of s other than active
WithoutActive(s) == [n \in DOMAIN s \ {"active"} |-> s[n]]

\* two calls return the same, log and emit the same and leave instances that
\* differ at most in active
SameButActive(r1, r2) ==
    /\ r1.ret = r2.ret
    /\ r1.log = r2.log
    /\ r1.events = r2.events
    /\ WithoutActive(r1.self) = WithoutActive(r2.self)

\* C15: no rule logic reads active.  In every reachable state the copy of
\* the rule that differs in active alone answers every request, order,
\* trade and settings update as the rule itself does: same result, same log
\* and events, same counters and sets.  Two copies that start differing in
\* active alone and receive the same calls therefore stay in step, and a
\* rule with active = False denies what the active rule denies.
C15_ActiveFlagIsNeverRead ==
    LET twin == FlipActive(self)
    IN  /\ \A req \in Requests(cls) :
              SameButActive(check_allowed(cls, twin, req),
                            check_allowed(cls, self, req))
        /\ \A order \in Orders :
              SameButActive(on_order(cls, twin, order), on_order(cls, self, order))
        /\ \A trade \in Trades :
              SameButActive(on_trade(cls, twin, trade), on_trade(cls, self, trade))
        /\ \A rule_setting \in Settings(cls) :
              /\ WithoutActive(update_setting(twin, rule_setting))
                     = WithoutActive(update_setting(self, rule_setting))
              /\ "active" \notin DOMAIN rule_setting =>
                     update_setting(twin, rule_setting).active = ~self.active
        /\ get_data(cls, twin).variables = get_data(cls, self).variables
        /\ WithoutActive(get_data(cls, twin).parameters)
               = WithoutActive(get_data(cls, self).parameters)

\* rules whose active flag is False deny: an ActiveOrderRule at its limit
C15_Witness ==
    /\ Checked("ActiveOrderRule")
    /\ self.active = FALSE
    /\ ret = FALSE
    /\ self.active_order_count = self.active_order_limit

\* the order and cancel side, and the trade side, of a DailyLimitRule
DailyOrderSide(s) ==
    <<s.all_orderids, s.cancel_orderids, s.total_order_count,
      s.total_cancel_count, s.contract_order_count, s.contract_cancel_count>>

DailyTradeSide(s) ==
    <<s.all_tradeids, s.total_trade_count, s.contract_trade_count>>

\* total_trade_count is the number of distinct trade identifiers seen
C16_TradeCountIsDistinctIds ==
    cls = "DailyLimitRule" =>
        self.total_trade_count = Cardinality(self.all_tradeids)

\* on_trade: a first notification records the identifier, adds 1 to the
\* global and to the symbol's trade count and emits one update; a repeated
\* one changes nothing and emits nothing; neither touches the order side,
\* and on_order does not touch the trade side
C16_TradeStep ==
    [][cls = "DailyLimitRule" =>
          /\ op' = "on_trade" =>
                /\ IF arg'.vt_tradeid \notin self.all_tradeids
                   THEN /\ self'.all_tradeids
                              = self.all_tradeids \cup {arg'.vt_tradeid}
                        /\ self'.total_trade_count = self.total_trade_count + 1
                        /\ \A sym \in Symbols :
                              DictGet(self'.contract_trade_count, sym)
                                 = DictGet(self.contract_trade_count, sym)
                                   + (IF sym = arg'.vt_symbol THEN 1 ELSE 0)
                        /\ events' = 1
                   ELSE self' = self /\ events' = 0
                /\ DailyOrderSide(self') = DailyOrderSide(self)
          /\ op' = "on_order" => DailyTradeSide(self') = DailyTradeSide(self)]_vars

\* C16: DailyLimitRule.on_trade counts each trade identifier once, and
\* on_trade and on_order keep to their own counters.
C16_EachTradeIdCountedOnce == []C16_TradeCountIsDistinctIds /\ C16_TradeStep

\* a trade notified again after both trades were counted
C16_Witness ==
    /\ cls = "DailyLimitRule"
    /\ op = "on_trade"
    /\ events = 0
    /\ self.total_trade_count = 2
    /\ self.all_tradeids = TradeIds
    /\ self.total_order_count > 0

\* the count the DuplicateOrderRule holds for a fingerprint
FingerprintCount(s, req_str) == DictGet(s.duplicate_order_count, req_str)

\* two requests have one fingerprint iff their six fields are equal, and the
\* count of a request's fingerprint is the number of calls made with that
\* very request: calls made with another request never add to it
C17_CountIsCallsOfSameRequest ==
    cls = "DuplicateOrderRule" =>
        /\ \A r1, r2 \in DOMAIN calls :
              format_req(r1) = format_req(r2) <=>
                  /\ r1.vt_symbol = r2.vt_symbol
                  /\ r1.type = r2.type
                  /\ r1.direction = r2.direction
                  /\ r1.offset = r2.offset
                  /\ r1.volume = r2.volume
                  /\ r1.price = r2.price
        /\ \A req \in DOMAIN calls :
              FingerprintCount(self, format_req(req)) = calls[req]

\* a check_allowed call, allowed or denied, adds 1 to the count of the
\* fingerprint of its request and leaves every other count as it was
C17_CheckStep ==
    [][(cls = "DuplicateOrderRule" /\ op' = "check_allowed") =>
          /\ DOMAIN self'.duplicate_order_count
                = DOMAIN self.duplicate_order_count \cup {format_req(arg')}
          /\ \A req_str \in DOMAIN self'.duplicate_order_count :
                FingerprintCount(self', req_str)
                   = FingerprintCount(self, req_str)
                     + (IF req_str = format_req(arg') THEN 1 ELSE 0)]_vars

\* C17: DuplicateOrderRule counts per fingerprint, and the fingerprint
\* tells apart requests that differ in any one of the six fields.
C17_FingerprintCountsAreSeparate ==
    []C17_CountIsCallsOfSameRequest /\ C17_CheckStep

\* the first call of a request is allowed although a request that differs
\* from it in the offset alone was denied at its limit
C17_Witness ==
    /\ Checked("DuplicateOrderRule")
    /\ ret = TRUE
    /\ calls[arg] = 1
    /\ \E req \in DOMAIN calls :
          /\ req.offset # arg.offset
          /\ [req EXCEPT !.offset = arg.offset] = arg
          /\ calls[req] >= self.duplicate_order_limit

\* C18: each global counter of a DailyLimitRule is the sum of its
\* per-symbol counter over all symbols (the symbols a check_allowed read
\* inserted count 0).
C18_GlobalCountersAreSums ==
    cls = "DailyLimitRule" =>
        /\ self.total_order_count = SumValues(self.contract_order_count)
        /\ self.total_cancel_count = SumValues(self.contract_cancel_count)
        /\ self.total_trade_count = SumValues(self.contract_trade_count)

\* orders, a cancel and trades of two symbols counted, and a third symbol
\* inserted by a check
C18_Witness ==
    /\ cls = "DailyLimitRule"
    /\ self.total_order_count = 3
    /\ self.total_cancel_count = 1
    /\ self.total_trade_count = 2
    /\ DOMAIN self.contract_order_count = Symbols
    /\ self.contract_order_count["IF2412.CFFEX"] = 2
    /\ self.contract_order_count["rb2501.SHFE"] = 1
    /\ self.contract_trade_count["rb2501.SHFE"] = 1

\* every count of the mapping d is at least as large in e
CountsGrow(d, e) ==
    /\ DOMAIN d \subseteq DOMAIN e
    /\ \A k \in DOMAIN d : d[k] <= e[k]

\* the limits of a DailyLimitRule
DailyLimits(s) ==
    <<s.total_order_limit, s.total_cancel_limit, s.total_trade_limit,
      s.contract_order_limit, s.contract_cancel_limit, s.contract_trade_limit>>

\* no step decreases or resets a counter of a DailyLimitRule or a count of a
\* DuplicateOrderRule, and on_tick and on_timer change nothing
C19_CountsNeverDecrease ==
    [][/\ cls = "DailyLimitRule" =>
              /\ self.total_order_count <= self'.total_order_count
              /\ self.total_cancel_count <= self'.total_cancel_count
              /\ self.total_trade_count <= self'.total_trade_count
              /\ CountsGrow(self.contract_order_count, self'.contract_order_count)
              /\ CountsGrow(self.contract_cancel_count,
                            self'.contract_cancel_count)
              /\ CountsGrow(self.contract_trade_count, self'.contract_trade_count)
       /\ cls = "DuplicateOrderRule" =>
              CountsGrow(self.duplicate_order_count, self'.duplicate_order_count)
       /\ op' \in {"on_tick", "on_timer"} => self' = self /\ events' = 0]_vars

\* while the limits are unchanged, a request that check_allowed denies is
\* denied after every step: a DailyLimitRule request of its symbol, a
\* DuplicateOrderRule request of its fingerprint
C19_DenialsPersist ==
    [][/\ (cls = "DailyLimitRule" /\ DailyLimits(self') = DailyLimits(self)) =>
              \A req \in DailyRequests :
                  daily_check_allowed(self, req).ret = FALSE =>
                      daily_check_allowed(self', req).ret = FALSE
       /\ (/\ cls = "DuplicateOrderRule"
           /\ self'.duplicate_order_limit = self.duplicate_order_limit) =>
              \A req \in DOMAIN calls :
                  duplicate_check_allowed(self, req).ret = FALSE =>
                      duplicate_check_allowed(self', req).ret = FALSE]_vars

\* C19: the denials of the counting rules latch.
C19_CountingDenialsLatch == C19_CountsNeverDecrease /\ C19_DenialsPersist

\* a DailyLimitRule still denies a symbol whose cancel count has grown past
\* the limit it had reached
C19_Witness ==
    /\ Checked("DailyLimitRule")
    /\ ret = FALSE
    /\ DictGet(self.contract_cancel_count, arg.vt_symbol)
          > self.contract_cancel_limit
    /\ self.total_trade_count > 0

\* an inactive notification of an identifier that is not tracked leaves the
\* mapping and the count as they are
C20_UntrackedInactiveStep ==
    [][(/\ cls = "ActiveOrderRule"
        /\ op' = "on_order"
        /\ ~is_active(arg')
        /\ arg'.vt_orderid \notin DOMAIN self.active_orders) =>
           /\ self'.active_orders = self.active_orders
           /\ self'.active_order_count = self.active_order_count]_vars

\* an inactive notification of a tracked identifier removes it and takes 1
\* from the count
C20_TrackedInactiveStep ==
    [][(/\ cls = "ActiveOrderRule"
        /\ op' = "on_order"
        /\ ~is_active(arg')
        /\ arg'.vt_orderid \in DOMAIN self.active_orders) =>
           /\ DOMAIN self'.active_orders
                 = DOMAIN self.active_orders \ {arg'.vt_orderid}
           /\ self'.active_order_count = self.active_order_count - 1]_vars

\* a step that takes the rule from at or over its limit to below it leaves a
\* rule that allows every request, and a check made below the limit allows
C20_AllowsOnceBelowLimit ==
    [][cls = "ActiveOrderRule" =>
          /\ (/\ self.active_order_count >= self.active_order_limit
              /\ self'.active_order_count < self'.active_order_limit) =>
                 \A req \in ActiveRequests :
                     active_check_allowed(self', req).ret = TRUE
          /\ (/\ op' = "check_allowed"
              /\ self.active_order_count < self.active_order_limit) =>
                 ret' = TRUE /\ log' = <<>>]_vars

\* the count is never negative
C20_CountNotNegative ==
    cls = "ActiveOrderRule" => self.active_order_count >= 0

\* C20: the denials of ActiveOrderRule do not latch: once inactive
\* notifications of tracked orders bring the count below the limit the next
\* check allows; inactive notifications of untracked identifiers change
\* neither the mapping nor the count, which never falls below 0.
C20_ActiveDenialsDoNotLatch ==
    /\ []C20_CountNotNegative
    /\ C20_UntrackedInactiveStep
    /\ C20_TrackedInactiveStep
    /\ C20_AllowsOnceBelowLimit

\* a check is allowed at one below a limit of 2 after two of the three
\* orders notified, enough to have reached the limit, ended
C20_Witness ==
    /\ Checked("ActiveOrderRule")
    /\ ret = TRUE
    /\ self.active_order_limit = 2
    /\ self.active_order_count = 1
    /\ DOMAIN orders = OrderIds
    /\ Cardinality({id \in OrderIds : orders[id] \notin ActiveStatuses}) = 2

====
